---- MODULE Spec2Model ----
(***************************************************************************)
(* Durable work queue (WorkQueue), worker loop (workerThread) and job      *)
(* pipeline (processVmaxFile) of poomer-discord-vmax.cpp.                  *)
(*                                                                         *)
(* The SQLite table work_queue is the set `store` of row records.  The     *)
(* worker thread is a program counter `pc` over the steps of dequeue, the  *)
(* download, processVmaxFile and the delivery.  Producers (on_message) and *)
(* the /remove handler run concurrently with it.  A process kill and the   *)
(* following start (WorkQueue::initialize) are the actions Crash/Restart.  *)
(*                                                                         *)
(* Spec          the program: one worker, producers, an admin's /remove,   *)
(*               the clock, process kills and restarts                     *)
(* SpecShutdown  the program with requestShutdown, the clock standing still*)
(* SpecDequeuers the WorkQueue class with MaxCallers dequeue callers       *)
(* SpecApi       the WorkQueue class under arbitrary calls of its methods  *)
(* SpecRemove    the worker with jobs of several members and /remove in    *)
(*               its two locked calls                                      *)
(* SpecRender    the worker with every frame file followed on disk         *)
(* SpecOrbit     parseOrbit applied to one message text                    *)
(* SpecNames     the worker with jobs of different attachment names        *)
(***************************************************************************)
EXTENDS Integers, FiniteSets, Sequences, TLC

\* ---------------------------------------------------------------- bounds
MaxJobs == 2          \* rows ever inserted (AUTOINCREMENT ids 1..MaxJobs)
MaxTicks == 1         \* one-second clock ticks in a behaviour
MaxJumps == 1         \* long clock advances (more than a retention window)
MaxFrames == 2        \* largest orbit frame count a job's metadata yields
MaxReaders == 2       \* producers between reading the clock and enqueue
MaxCallers == 2       \* threads calling WorkQueue::dequeue concurrently

\* ------------------------------------------------------ program constants
DefaultMaxRetries == 3
RetentionSeconds == 24 * 60 * 60

Ids == 1..MaxJobs

Callers == 1..MaxCallers

\* Discord user ids (decimal strings) of members outside the allow-list
Users == {"u1", "u2"}

\* ADMIN_USER_IDS of the /remove handler
AdminUserIds == {"780541438022254624"}

\* attachment names that pass the handler's ".vmax.zip" suffix test
Filenames == {"a.vmax.zip", "b.vmax.zip"}

VARIABLES
    store,              \* table work_queue: a set of rows
    nextId,             \* AUTOINCREMENT sequence: id of the next inserted row
    now,                \* std::time(nullptr)
    alive,              \* the process is running
    shutdown_requested, \* WorkQueue::shutdown_requested
    cancel_current_job, \* WorkQueue::cancel_current_job
    current_job_id,     \* WorkQueue::current_job_id
    pc,                 \* position of the worker thread
    item,               \* workerThread's WorkItem item (its id; 0 = default)
    output_filename,    \* workerThread's output_filename: "" or "out"
    orbit_frames,       \* processVmaxFile's orbit_frames
    frame,              \* processVmaxFile's frame index i
    readings,           \* created_at values read by producers not yet enqueued
    fails,              \* history: markFailed calls that found the row, per id
    cancel_target,      \* history: id selected by the last cancelCurrentJob
    pipeline_exit,      \* history: how the last processVmaxFile call returned
    lastInit,           \* history: rows purged / reset by the last initialize
    files,              \* paths on disk: <<kind, job id or frame index>>
    shutdown_job,       \* history: the job in flight at requestShutdown (0 = none)
    cancel_by,          \* history: requesters whose cancelCurrentJob set the flag
    requests,           \* /remove handlers between owner check and cancelCurrentJob
    mutex,              \* queue_mutex: the dequeue caller holding it (0 = free)
    callers,            \* position and selected row of each dequeue caller
    holders,            \* history: callers a row was returned to while 'pending' once
    ret,                \* history: the last call and what it returned
    frame_watch,        \* the frame indices whose files are followed across calls
    message_content,    \* parseOrbit's argument, a sequence of characters
    rendered,           \* history: the frames the current call rendered, in order
    file_data,          \* workerThread's file_data: "" (empty) or "data"
    send_success        \* workerThread's send_success

vars == <<store, nextId, now, alive, shutdown_requested,
          cancel_current_job, current_job_id, pc, item, output_filename,
          orbit_frames, frame, readings, fails, cancel_target,
          pipeline_exit, lastInit, files, shutdown_job, cancel_by, requests,
          mutex, callers, holders, ret, frame_watch, message_content,
          rendered, file_data, send_success>>

\* what only the choice of the initial state sets
auxVars == <<frame_watch, message_content>>
\* the state of the callers of the WorkQueue other than the worker thread
sideVars == <<requests, mutex, callers, holders, ret>>
\* what no step of the worker's loop body changes
envVars == <<nextId, now, alive, shutdown_requested, readings, lastInit,
             shutdown_job, sideVars, auxVars>>
\* the cancellation state and its history
cancelVars == <<cancel_current_job, current_job_id, cancel_target, cancel_by>>
\* the locals of one loop iteration and their history
jobVars == <<item, output_filename, orbit_frames, frame, pipeline_exit,
             rendered, file_data, send_success>>

\* ------------------------------------------------------------ store (SQL)
Row(id, name, user, created, retries, status, bstart, bend) ==
    [id |-> id, original_filename |-> name, user_id |-> user,
     created_at |-> created, retry_count |-> retries,
     status |-> status, bella_start_time |-> bstart, bella_end_time |-> bend]

\* struct WorkItem, the fields enqueue reads
WorkItem(name, user, created, retries) ==
    [original_filename |-> name, user_id |-> user, created_at |-> created,
     retry_count |-> retries]

RowsWithId(s, id) == {r \in s : r.id = id}

RowsWithStatus(s, st) == {r \in s : r.status = st}

\* mutant: ORDER BY id instead of ORDER BY created_at
OldestWithStatus_ById(s, st) ==
    {r \in RowsWithStatus(s, st) :
        \A q \in RowsWithStatus(s, st) : r.id <= q.id}

\* SELECT ... WHERE status = st ORDER BY created_at ASC LIMIT 1 (ties: any)
OldestWithStatus(s, st) ==
    {r \in RowsWithStatus(s, st) :
        \A q \in RowsWithStatus(s, st) : r.created_at <= q.created_at}

\* DELETE FROM work_queue WHERE id = ?
DeleteWhereId(s, id) == {r \in s : r.id # id}

\* mutant: the purge takes every old row, whatever its status
PurgedAtInit_AnyStatus(s, t) ==
    {r \in s : r.bella_end_time < t - RetentionSeconds}
\* mutant: every completed row is purged, whatever its age
PurgedAtInit_All(s, t) == {r \in s : r.status = "completed"}
\* WorkQueue::initialize: purge old completed rows, reset orphaned rows
PurgedAtInit(s, t) ==
    {r \in s : r.status = "completed" /\ r.bella_end_time < t - RetentionSeconds}

ResetAtInit(s) ==
    {r \in s : r.status = "processing" /\ r.bella_end_time = 0}

\* mutant: the orphaned 'processing' rows are not reset
initialize_NoReset(s, t) == s \ PurgedAtInit(s, t)

\* mutant: the old 'completed' rows are not purged
initialize_NoPurge(s, t) ==
    {IF r \in ResetAtInit(s) THEN [r EXCEPT !.status = "pending"] ELSE r
        : r \in s}

\* mutant: the reset of an orphaned row costs it one retry
initialize_ConsumesRetry(s, t) ==
    LET kept == s \ PurgedAtInit(s, t)
    IN  {IF r \in ResetAtInit(kept)
         THEN [r EXCEPT !.status = "pending", !.retry_count = @ + 1]
         ELSE r
            : r \in kept}

initialize(s, t) ==
    LET kept == s \ PurgedAtInit(s, t)
    IN  {IF r \in ResetAtInit(kept) THEN [r EXCEPT !.status = "pending"] ELSE r
            : r \in kept}

\* WorkQueue::enqueue: INSERT with the item's name, user, created_at and
\* retry_count; id, status and both timestamps come from the column defaults
enqueue(s, id, it) ==
    s \cup {Row(id, it.original_filename, it.user_id, it.created_at,
                it.retry_count, "pending", 0, 0)}

\* WorkQueue::markProcessing
markProcessing(s, id) ==
    {IF r.id = id THEN [r EXCEPT !.status = "processing"] ELSE r : r \in s}

\* WorkQueue::markCompleted
markCompleted(s, id, t) ==
    {IF r.id = id
        THEN [r EXCEPT !.status = "completed", !.bella_end_time = t]
        ELSE r : r \in s}

\* mutant: the row is deleted one failure earlier
markFailed_EarlyDelete(s, id, max_retries) ==
    IF RowsWithId(s, id) = {} THEN s
    ELSE LET current_retries == (CHOOSE r \in RowsWithId(s, id) : TRUE).retry_count
             retried(r) == [r EXCEPT !.retry_count = current_retries + 1,
                                     !.status = "pending"]
         IN  IF current_retries + 1 >= max_retries
             THEN DeleteWhereId(s, id)
             ELSE {IF r.id = id THEN retried(r) ELSE r : r \in s}

\* mutant: the retry UPDATE does not set the status back to 'pending'
markFailed_KeepStatus(s, id, max_retries) ==
    IF RowsWithId(s, id) = {} THEN s
    ELSE LET current_retries == (CHOOSE r \in RowsWithId(s, id) : TRUE).retry_count
             retried(r) == [r EXCEPT !.retry_count = current_retries + 1]
         IN  IF current_retries >= max_retries
             THEN DeleteWhereId(s, id)
             ELSE {IF r.id = id THEN retried(r) ELSE r : r \in s}

\* mutant: the row is deleted one failure later
markFailed_LateDelete(s, id, max_retries) ==
    IF RowsWithId(s, id) = {} THEN s
    ELSE LET current_retries == (CHOOSE r \in RowsWithId(s, id) : TRUE).retry_count
             retried(r) == [r EXCEPT !.retry_count = current_retries + 1,
                                     !.status = "pending"]
         IN  IF current_retries > max_retries
             THEN DeleteWhereId(s, id)
             ELSE {IF r.id = id THEN retried(r) ELSE r : r \in s}

\* mutant: the re-queued row loses its render start time
markFailed_ClearsStart(s, id, max_retries) ==
    IF RowsWithId(s, id) = {} THEN s
    ELSE LET current_retries == (CHOOSE r \in RowsWithId(s, id) : TRUE).retry_count
             retried(r) == [r EXCEPT !.retry_count = current_retries + 1,
                                     !.status = "pending",
                                     !.bella_start_time = 0]
         IN  IF current_retries >= max_retries
             THEN DeleteWhereId(s, id)
             ELSE {IF r.id = id THEN retried(r) ELSE r : r \in s}
\* WorkQueue::markFailed: delete at the retry bound, else re-queue
markFailed(s, id, max_retries) ==
    IF RowsWithId(s, id) = {} THEN s
    ELSE LET current_retries == (CHOOSE r \in RowsWithId(s, id) : TRUE).retry_count
             retried(r) == [r EXCEPT !.retry_count = current_retries + 1,
                                     !.status = "pending"]
         IN  IF current_retries >= max_retries
             THEN DeleteWhereId(s, id)
             ELSE {IF r.id = id THEN retried(r) ELSE r : r \in s}

\* mutant: the start of the render is not recorded
markBellaStarted_Skip(s, id, t) == s
\* WorkQueue::markBellaStarted
markBellaStarted(s, id, t) ==
    {IF r.id = id THEN [r EXCEPT !.bella_start_time = t] ELSE r : r \in s}

\* mutant: the acknowledgement leaves the row in the table
cancelledStore_KeepRow(s, job_id) == s

\* WorkQueue::markCurrentJobCancelled, store part
cancelledStore(s, job_id) ==
    IF job_id > 0 THEN DeleteWhereId(s, job_id) ELSE s

\* a notification that reaches no waiter
Notify_Lost(p) == p

\* ----------------------------------------------------- condition variable
\* queue_condition.notify_one / notify_all with a single waiter
Notify(p) == IF p = "dq_wait" THEN "dq_woken" ELSE p

\* queue_mutex is held by the worker inside dequeue, outside the wait
LockFree == pc \notin {"dq_check", "dq_select"}

PipelinePcs == {"p_stage", "p_build", "p_frame", "p_frame_render",
                "p_stitch", "p_single"}

\* ------------------------------------------------------- job-scoped paths
\* temp_vmax_file_job<ID>.vmax.zip
TempFile(id) == <<"temp_vmax_file", id>>

\* voxel_max_workdir_job<ID>
WorkDir(id) == <<"voxel_max_workdir", id>>

\* frame_%04d.jpg of frame i, in the working directory of the process: the
\* name carries no job id
FrameFile(i) == <<"frame", i>>

\* mutant: the clean-up loop stops one frame short
FrameFiles_SkipLast(n) == {FrameFile(i) : i \in 0..(n - 2)}
\* the first n frame files, which the loop after a successful ffmpeg removes
FrameFiles(n) == {FrameFile(i) : i \in 0..(n - 1)}

\* the paths of fs a later call of processVmaxFile can still find.  A job
\* path carries the AUTOINCREMENT id, so no later call names the paths of a
\* job whose row is gone; the temporary file of any job is written anew
\* before the call first returns.  Such paths stay on disk but are dropped
\* from the state between two calls; a left-over work directory of a job
\* still in the store is kept, since an unzip failure returns without
\* touching it.  A frame file stays on disk as well and any later ffmpeg
\* reads it; it is followed across calls when its index is in frame_watch
\* (no step of the program reads frame_watch or depends on a frame file).
LiveFiles(fs, s) ==
    {f \in fs : \/ f[1] = "frame" /\ f[2] \in frame_watch
                \/ f[1] = "voxel_max_workdir" /\ RowsWithId(s, f[2]) # {}}

\* ------------------------------------------------------------ parseOrbit
\* A std::string is the sequence of its characters, p-th character (from 0)
\* at index p + 1.

\* std::string::npos
npos == -1

\* INT_MAX, the largest value std::stoi returns
IntMax == 2147483647

\* "orbit="
OrbitKey == <<"o", "r", "b", "i", "t", "=">>

\* ::tolower, on the letters the messages below are written with
tolower(c) ==
    CASE c = "O" -> "o" [] c = "R" -> "r" [] c = "B" -> "b"
      [] c = "I" -> "i" [] c = "T" -> "t" [] OTHER -> c

\* std::transform(begin, end, begin, ::tolower)
ToLower(str) == [p \in DOMAIN str |-> tolower(str[p])]

\* std::string::find(pat): the first position where pat occurs, or npos
find(str, pat) ==
    LET hits == {p \in 0..(Len(str) - Len(pat)) :
                    SubSeq(str, p + 1, p + Len(pat)) = pat}
    IN  IF hits = {} THEN npos
        ELSE CHOOSE p \in hits : \A q \in hits : p <= q

\* std::string::find_first_of(chars, start)
find_first_of(str, chars, start) ==
    LET hits == {p \in start..(Len(str) - 1) : str[p + 1] \in chars}
    IN  IF hits = {} THEN npos
        ELSE CHOOSE p \in hits : \A q \in hits : p <= q

\* std::string::substr(start, n), for start + n <= length
substr(str, start, n) == SubSeq(str, start + 1, start + n)

\* std::isspace
isspace(c) == c \in {" ", "\t", "\n", "\r", "\f"}

DecimalDigits == <<"0", "1", "2", "3", "4", "5", "6", "7", "8", "9">>

\* std::isdigit
isdigit(c) == \E d \in 1..10 : DecimalDigits[d] = c

DigitValue(c) == (CHOOSE d \in 1..10 : DecimalDigits[d] = c) - 1

\* the value of the digits of str from index k on, after acc; npos when it
\* exceeds INT_MAX
RECURSIVE strtol_digits(_, _, _)
strtol_digits(str, k, acc) ==
    IF k > Len(str) \/ ~isdigit(str[k]) THEN acc
    ELSE IF acc = npos \/ acc > (IntMax - DigitValue(str[k])) \div 10
         THEN strtol_digits(str, k + 1, npos)
         ELSE strtol_digits(str, k + 1, acc * 10 + DigitValue(str[k]))

\* std::stoi(str): leading white space is skipped, an optional sign and the
\* longest run of digits are converted and the rest of str is ignored;
\* threw is std::invalid_argument (no digit) or std::out_of_range.  (The
\* one value below -INT_MAX counts as out of range; parseOrbit returns 0
\* for it either way.)
stoi(str) ==
    LET rest  == {k \in 1..Len(str) : ~isspace(str[k])}
        first == IF rest = {} THEN Len(str) + 1
                 ELSE CHOOSE k \in rest : \A j \in rest : k <= j
        signed == first <= Len(str) /\ str[first] \in {"+", "-"}
        digits == IF signed THEN first + 1 ELSE first
        none  == digits > Len(str) \/ ~isdigit(str[digits])
        magnitude == IF none THEN 0 ELSE strtol_digits(str, digits, 0)
    IN  [threw |-> none \/ magnitude = npos,
         value |-> IF signed /\ str[first] = "-"
                   THEN 0 - magnitude ELSE magnitude]

\* parseOrbit(message_content)
parseOrbit(message) ==
    LET content_lower == ToLower(message)
        pos    == find(content_lower, OrbitKey)
        start  == pos + 6
        found  == find_first_of(message, {" ", "\t", "\n", "\r"}, start)
        end    == IF found = npos THEN Len(message) ELSE found
        frames == stoi(substr(message, start, end - start))
    IN  IF pos = npos THEN 0
        ELSE IF start >= Len(message) THEN 0
        ELSE IF frames.threw THEN 0
        ELSE IF frames.value <= 0 \/ frames.value > 300 THEN 0
        ELSE frames.value

\* the decimal numeral of n
RECURSIVE Decimal(_)
Decimal(n) ==
    IF n < 10 THEN <<DecimalDigits[n + 1]>>
    ELSE Decimal(n \div 10) \o <<DecimalDigits[(n % 10) + 1]>>

\* the message texts of the jobs: no directive, or orbit=n for a small n
Messages == {<<>>} \cup {OrbitKey \o Decimal(n) : n \in 1..MaxFrames}
\* ------------------------------------------------------------------ Init
\* the frame indices a render loop can produce
FrameIndices == 0..(MaxFrames - 1)

\* the program after construction, on an empty database and an empty disk
InitProgram ==
    /\ store = {}
    /\ nextId = 1
    /\ now = 1
    /\ alive = TRUE
    /\ shutdown_requested = FALSE
    /\ cancel_current_job = FALSE
    /\ current_job_id = 0
    /\ pc = "idle"
    /\ item = 0
    /\ output_filename = ""
    /\ orbit_frames = 0
    /\ frame = 0
    /\ readings = {}
    /\ fails = [i \in Ids |-> 0]
    /\ cancel_target = 0
    /\ pipeline_exit = "none"
    /\ lastInit = [purged |-> {}, reset |-> {}]
    /\ files = {}
    /\ shutdown_job = 0
    /\ cancel_by = {}
    /\ requests = {}
    /\ mutex = 0
    /\ callers = [c \in Callers |-> [pc |-> "out", sel |-> 0]]
    /\ holders = [i \in Ids |-> {}]
    /\ ret = [op |-> "other", name |-> ""]
    /\ rendered = <<>>
    /\ file_data = ""
    /\ send_success = FALSE

\* no frame file is followed from one call of processVmaxFile to the next
Init ==
    /\ InitProgram
    /\ frame_watch = {}
    /\ message_content = <<>>

\* mutant: current_job_id is not cleared
Acknowledge_KeepJobId ==
    /\ cancel_current_job' = FALSE
    /\ store' = cancelledStore(store, current_job_id)
    /\ current_job_id' = current_job_id
    /\ cancel_target' = 0
    /\ cancel_by' = {}

\* acknowledgement: WorkQueue::markCurrentJobCancelled
Acknowledge ==
    /\ cancel_current_job' = FALSE
    /\ store' = cancelledStore(store, current_job_id)
    /\ current_job_id' = 0
    /\ cancel_target' = 0
    /\ cancel_by' = {}

\* processVmaxFile returns: its locals go out of scope
ReturnFromPipeline(out, how) ==
    /\ output_filename' = out
    /\ pipeline_exit' = how
    /\ orbit_frames' = 0
    /\ frame' = 0
    /\ pc' = "postcheck"
    /\ UNCHANGED <<item, rendered, file_data, send_success>>

\* the worker's loop body ends (continue, or the end of the body); item is
\* dead until the next dequeue overwrites it
NextIteration ==
    /\ pc' = "idle"
    /\ item' = 0
    /\ output_filename' = ""
    /\ pipeline_exit' = "none"
    /\ rendered' = <<>>
    /\ file_data' = ""
    /\ send_success' = FALSE
    /\ files' = LiveFiles(files, store')
    /\ UNCHANGED <<orbit_frames, frame>>

\* ------------------------------------------------------------ the clock
Tick ==
    /\ (now - 1) % RetentionSeconds < MaxTicks
    /\ now' = now + 1
    /\ UNCHANGED <<store, nextId, alive, shutdown_requested, readings,
                   lastInit, cancelVars, jobVars, pc, fails, files, auxVars,
                   shutdown_job, sideVars>>

Jump ==
    /\ (now - 1) \div RetentionSeconds < MaxJumps
    /\ now' = now + RetentionSeconds
    /\ UNCHANGED <<store, nextId, alive, shutdown_requested, readings,
                   lastInit, cancelVars, jobVars, pc, fails, files, auxVars,
                   shutdown_job, sideVars>>

\* ------------------------------------------------------------ producers
\* on_message_create: item.created_at = std::time(nullptr)
ReadClock ==
    /\ alive /\ ~shutdown_requested
    /\ Cardinality(readings) < MaxReaders
    /\ nextId - 1 + Cardinality(readings) < MaxJobs
    /\ now \notin readings
    /\ readings' = readings \cup {now}
    /\ UNCHANGED <<store, nextId, now, alive, shutdown_requested, lastInit,
                   cancelVars, jobVars, pc, fails, files, auxVars, shutdown_job,
                   sideVars>>

\* on_message_create of a message by one of `users` with an attachment
\* named by one of `names`: item.original_filename, item.user_id,
\* item.created_at, item.retry_count = 0; work_queue.enqueue(item)
EnqueueFrom(users, names) ==
    /\ alive /\ LockFree
    /\ \E t \in readings, u \in users, n \in names :
        /\ store' = enqueue(store, nextId, WorkItem(n, u, t, 0))
        /\ readings' = readings \ {t}
    /\ nextId' = nextId + 1
    /\ pc' = Notify(pc)
    /\ UNCHANGED <<now, alive, shutdown_requested, lastInit, cancelVars,
                   jobVars, fails, files, auxVars, shutdown_job, sideVars>>

\* every attachment has the same name
EnqueueBy(users) == EnqueueFrom(users, {"a.vmax.zip"})

\* every job is submitted by the same member
Enqueue == EnqueueBy({"u1"})

\* /remove of an admin: WorkQueue::cancelCurrentJob finding a 'processing' row
CancelCurrentJob ==
    /\ alive /\ ~shutdown_requested /\ LockFree
    /\ \E r \in OldestWithStatus(store, "processing") :
        cancel_target' = r.id
    /\ cancel_current_job' = TRUE
    /\ cancel_by' = cancel_by \cup AdminUserIds
    /\ UNCHANGED <<store, envVars, current_job_id, jobVars, pc, fails, files>>

\* DL_main after bot_thread.join(): WorkQueue::requestShutdown
RequestShutdown ==
    /\ alive /\ ~shutdown_requested
    /\ readings = {}
    /\ shutdown_requested' = TRUE
    /\ shutdown_job' = item
    /\ pc' = Notify(pc)
    /\ UNCHANGED <<store, nextId, now, alive, readings, lastInit, cancelVars,
                   jobVars, fails, files, auxVars, sideVars>>

\* ------------------------------------------------- worker: dequeue
\* std::unique_lock lock(queue_mutex), on entry and after a wake-up
\* (the history lastInit describes only the state initialize left behind)
DequeueLock ==
    /\ alive /\ pc \in {"idle", "dq_woken"}
    /\ pc' = "dq_check"
    /\ lastInit' = [purged |-> {}, reset |-> {}]
    /\ UNCHANGED <<store, nextId, now, alive, shutdown_requested, readings,
                   cancelVars, jobVars, fails, files, auxVars, shutdown_job, sideVars>>

\* while (!shutdown_requested) ... return false
DequeueCheck ==
    /\ alive /\ pc = "dq_check"
    /\ pc' = IF shutdown_requested THEN "done" ELSE "dq_select"
    /\ UNCHANGED <<store, envVars, cancelVars, jobVars, fails>>
    /\ UNCHANGED files

\* mutant: with no pending row dequeue returns false instead of waiting
DequeueSelect_NoWait ==
    /\ alive /\ pc = "dq_select"
    /\ IF RowsWithStatus(store, "pending") # {}
       THEN \E r \in OldestWithStatus(store, "pending") :
                /\ item' = r.id
                /\ store' = markProcessing(store, r.id)
                /\ pc' = "fetching"
       ELSE /\ pc' = "done"
            /\ UNCHANGED <<store, item>>
    /\ UNCHANGED <<envVars, cancelVars, output_filename, orbit_frames, frame,
                   pipeline_exit, rendered, file_data, send_success, fails>>
    /\ UNCHANGED files

\* SELECT oldest pending; markProcessing and return, or wait
DequeueSelect ==
    /\ alive /\ pc = "dq_select"
    /\ IF RowsWithStatus(store, "pending") # {}
       THEN \E r \in OldestWithStatus(store, "pending") :
                /\ item' = r.id
                /\ store' = markProcessing(store, r.id)
                /\ pc' = "fetching"
       ELSE /\ pc' = "dq_wait"
            /\ UNCHANGED <<store, item>>
    /\ UNCHANGED <<envVars, cancelVars, output_filename, orbit_frames, frame,
                   pipeline_exit, rendered, file_data, send_success, fails>>
    /\ UNCHANGED files

\* std::condition_variable::wait may return without a notification
SpuriousWake ==
    /\ alive /\ pc = "dq_wait"
    /\ pc' = "dq_woken"
    /\ UNCHANGED <<store, envVars, cancelVars, jobVars, fails>>
    /\ UNCHANGED files

\* mutant: the failed download records the job as the current one
FetchFail_SetsJobId ==
    /\ alive /\ pc = "fetching"
    /\ store' = markFailed(store, item, DefaultMaxRetries)
    /\ fails' = IF RowsWithId(store, item) # {}
                THEN [fails EXCEPT ![item] = @ + 1] ELSE fails
    /\ NextIteration
    /\ current_job_id' = item
    /\ UNCHANGED <<envVars, cancel_current_job, cancel_target, cancel_by>>
\* ------------------------------------------------- worker: download
\* download_success is false: markFailed(item.id)
FetchFail ==
    /\ alive /\ pc = "fetching"
    /\ store' = markFailed(store, item, DefaultMaxRetries)
    /\ fails' = IF RowsWithId(store, item) # {}
                THEN [fails EXCEPT ![item] = @ + 1] ELSE fails
    /\ NextIteration
    /\ UNCHANGED <<envVars, cancelVars>>

\* download_success is true: setCurrentJobId(item.id)
FetchOk ==
    /\ alive /\ pc = "fetching"
    /\ current_job_id' = item
    /\ pc' = "precheck"
    /\ UNCHANGED <<store, envVars, cancel_current_job, cancel_target,
                   cancel_by, jobVars, fails>>
    /\ UNCHANGED files

\* if (shouldCancelCurrentJob()) { markCurrentJobCancelled(); continue; }
\* else processVmaxFile is entered and writes the temporary input file
PreCheck ==
    /\ alive /\ pc = "precheck"
    /\ IF cancel_current_job
       THEN /\ Acknowledge
            /\ NextIteration
       ELSE /\ pc' = "p_stage"
            /\ files' = files \cup {TempFile(item)}
            /\ UNCHANGED <<store, cancelVars, jobVars>>
    /\ UNCHANGED <<envVars, fails>>

\* ------------------------------------------- worker: processVmaxFile
\* unzip fails (the temporary file is removed), or no .vmax directory is
\* found (the temporary file and the work directory are removed): return ""
StageFail ==
    /\ alive /\ pc = "p_stage"
    /\ \/ files' = files \ {TempFile(item)}
       \/ files' = files \ {TempFile(item), WorkDir(item)}
    /\ ReturnFromPipeline("", "failure")
    /\ UNCHANGED <<store, envVars, cancelVars, fails>>

\* the payload is extracted into the work directory
StageOk ==
    /\ alive /\ pc = "p_stage"
    /\ files' = files \cup {WorkDir(item)}
    /\ pc' = "p_build"
    /\ UNCHANGED <<store, envVars, cancelVars, jobVars, fails>>

\* a cancellation check in the model / instance loops sees the flag
BuildCancel ==
    /\ alive /\ pc = "p_build"
    /\ cancel_current_job
    /\ Acknowledge
    /\ ReturnFromPipeline("", "cancelled")
    /\ UNCHANGED <<envVars, fails>>
    /\ UNCHANGED files

\* scene.json is missing (plain return), or an exception reaches the catch
\* block (which removes the work directory and the temporary file)
BuildFail ==
    /\ alive /\ pc = "p_build"
    /\ \/ UNCHANGED files
       \/ files' = files \ {WorkDir(item), TempFile(item)}
    /\ ReturnFromPipeline("", "failure")
    /\ UNCHANGED <<store, envVars, cancelVars, fails>>

\* the scene is built: markBellaStarted, parseOrbit, start of the render
BuildDone ==
    /\ alive /\ pc = "p_build"
    /\ store' = markBellaStarted(store, item, now)
    /\ \E m \in Messages :
        /\ orbit_frames' = parseOrbit(m)
        /\ pc' = IF parseOrbit(m) > 0 THEN "p_frame" ELSE "p_single"
    /\ frame' = 0
    /\ UNCHANGED <<envVars, cancelVars, item, output_filename, pipeline_exit,
                   rendered, file_data, send_success, fails>>
    /\ UNCHANGED files

\* for (i ...): the check before frame i, then engine.start()
FrameCheck ==
    /\ alive /\ pc = "p_frame"
    /\ IF cancel_current_job
       THEN /\ Acknowledge
            /\ ReturnFromPipeline("", "cancelled")
       ELSE /\ pc' = "p_frame_render"
            /\ UNCHANGED <<store, cancelVars, jobVars>>
    /\ UNCHANGED <<envVars, fails>>
    /\ UNCHANGED files

\* while (engine.rendering()): the poll sees the flag, engine.stop()
FramePollCancel ==
    /\ alive /\ pc = "p_frame_render"
    /\ cancel_current_job
    /\ Acknowledge
    /\ ReturnFromPipeline("", "cancelled")
    /\ UNCHANGED <<envVars, fails>>
    /\ UNCHANGED files

\* engine.rendering() turns false: frame i is complete and written as
\* frame_%04d.jpg, i++
FrameDone ==
    /\ alive /\ pc = "p_frame_render"
    /\ frame' = frame + 1
    /\ pc' = IF frame + 1 < orbit_frames THEN "p_frame" ELSE "p_stitch"
    /\ files' = files \cup {FrameFile(frame)}
    /\ rendered' = Append(rendered, frame)
    /\ UNCHANGED <<file_data, send_success>>
    /\ UNCHANGED <<store, envVars, cancelVars, item, output_filename,
                   orbit_frames, pipeline_exit, fails>>

\* system(ffmpeg) returns 0: the frames, the work directory and the temporary
\* file are removed; return output_mp4
StitchOk ==
    /\ alive /\ pc = "p_stitch"
    /\ files' = files \ (FrameFiles(orbit_frames)
                            \cup {WorkDir(item), TempFile(item)})
    /\ ReturnFromPipeline("out", "success")
    /\ UNCHANGED <<store, envVars, cancelVars, fails>>

\* system(ffmpeg) returns non-zero: return ""
StitchFail ==
    /\ alive /\ pc = "p_stitch"
    /\ ReturnFromPipeline("", "failure")
    /\ UNCHANGED <<store, envVars, cancelVars, fails>>
    /\ UNCHANGED files

\* single frame: the poll sees the flag, engine.stop(), was_cancelled
SinglePollCancel ==
    /\ alive /\ pc = "p_single"
    /\ cancel_current_job
    /\ Acknowledge
    /\ ReturnFromPipeline("", "cancelled")
    /\ UNCHANGED <<envVars, fails>>
    /\ UNCHANGED files

\* single frame: engine.rendering() turns false: return base_filename.jpg
SingleDone ==
    /\ alive /\ pc = "p_single"
    /\ files' = files \ {WorkDir(item), TempFile(item)}
    /\ ReturnFromPipeline("out", "success")
    /\ UNCHANGED <<store, envVars, cancelVars, fails>>

\* ------------------------------------- worker: after processVmaxFile
\* mutant: the test after processVmaxFile looks at the flag only
PostCheck_FlagOnly ==
    /\ alive /\ pc = "postcheck"
    /\ pc' = IF cancel_current_job THEN "postcheck2" ELSE "delivering"
    /\ UNCHANGED <<store, envVars, cancelVars, jobVars, fails>>
    /\ UNCHANGED files

\* if (shouldCancelCurrentJob() || output_filename.empty())
PostCheck ==
    /\ alive /\ pc = "postcheck"
    /\ pc' = IF cancel_current_job \/ output_filename = ""
             THEN "postcheck2" ELSE "delivering"
    /\ UNCHANGED <<store, envVars, cancelVars, jobVars, fails>>
    /\ UNCHANGED files

\* if (shouldCancelCurrentJob()) markCurrentJobCancelled(); continue;
PostCheckContinue ==
    /\ alive /\ pc = "postcheck2"
    /\ IF cancel_current_job
       THEN Acknowledge
       ELSE UNCHANGED <<store, cancelVars>>
    /\ NextIteration
    /\ UNCHANGED <<envVars, fails>>

\* the artifact is read into file_data and the message is sent; the worker
\* waits for the callback, which sets send_success
Deliver ==
    /\ alive /\ pc = "delivering"
    /\ file_data' \in {"", "data"}
    /\ send_success' \in BOOLEAN
    /\ pc' = "settling"
    /\ UNCHANGED <<store, envVars, cancelVars, item, output_filename,
                   orbit_frames, frame, pipeline_exit, rendered, fails>>
    /\ UNCHANGED files

\* mutant: the outcome depends on the send alone
Settle_SendOnly ==
    /\ alive /\ pc = "settling"
    /\ IF send_success
       THEN /\ store' = markCompleted(store, item, now)
            /\ UNCHANGED fails
       ELSE /\ store' = markFailed(store, item, DefaultMaxRetries)
            /\ fails' = IF RowsWithId(store, item) # {}
                        THEN [fails EXCEPT ![item] = @ + 1] ELSE fails
    /\ NextIteration
    /\ UNCHANGED <<envVars, cancelVars>>

\* if (send_success && !file_data.empty()) markCompleted else markFailed
Settle ==
    /\ alive /\ pc = "settling"
    /\ IF send_success /\ file_data # ""
       THEN /\ store' = markCompleted(store, item, now)
            /\ UNCHANGED fails
       ELSE /\ store' = markFailed(store, item, DefaultMaxRetries)
            /\ fails' = IF RowsWithId(store, item) # {}
                        THEN [fails EXCEPT ![item] = @ + 1] ELSE fails
    /\ NextIteration
    /\ UNCHANGED <<envVars, cancelVars>>

\* ------------------------------------------------- process lifetime
\* the process is killed: everything but the database file is lost
Crash ==
    /\ alive
    /\ alive' = FALSE
    /\ shutdown_requested' = FALSE
    /\ cancel_current_job' = FALSE
    /\ current_job_id' = 0
    /\ cancel_target' = 0
    /\ cancel_by' = {}
    /\ shutdown_job' = 0
    /\ pc' = "down"
    /\ item' = 0
    /\ output_filename' = ""
    /\ orbit_frames' = 0
    /\ frame' = 0
    /\ pipeline_exit' = "none"
    /\ rendered' = <<>>
    /\ file_data' = ""
    /\ send_success' = FALSE
    /\ readings' = {}
    /\ lastInit' = [purged |-> {}, reset |-> {}]
    /\ files' = LiveFiles(files, store)
    /\ UNCHANGED <<store, nextId, now, fails, sideVars, auxVars>>

\* the process starts: WorkQueue::initialize, then the worker thread
Restart ==
    /\ ~alive
    /\ alive' = TRUE
    /\ store' = initialize(store, now)
    /\ lastInit' = [purged |-> {r.id : r \in PurgedAtInit(store, now)},
                    reset |-> {r.id : r \in ResetAtInit(store)}]
    /\ pc' = "idle"
    /\ UNCHANGED <<nextId, now, shutdown_requested, readings, cancelVars,
                   jobVars, fails, files, auxVars, shutdown_job, sideVars>>

Next ==
    \/ Tick \/ Jump
    \/ ReadClock \/ Enqueue \/ CancelCurrentJob
    \/ DequeueLock \/ DequeueCheck \/ DequeueSelect \/ SpuriousWake
    \/ FetchFail \/ FetchOk \/ PreCheck
    \/ StageFail \/ StageOk \/ BuildCancel \/ BuildFail \/ BuildDone
    \/ FrameCheck \/ FramePollCancel \/ FrameDone \/ StitchOk \/ StitchFail
    \/ SinglePollCancel \/ SingleDone
    \/ PostCheck \/ PostCheckContinue \/ Deliver \/ Settle
    \/ Crash \/ Restart

Spec == Init /\ [][Next]_vars

\* ====================================================================
\* The program up to its shutdown: as Spec, with requestShutdown and with
\* the clock standing still.
\* ====================================================================
NextShutdown ==
    \/ ReadClock \/ Enqueue \/ CancelCurrentJob \/ RequestShutdown
    \/ DequeueLock \/ DequeueCheck \/ DequeueSelect \/ SpuriousWake
    \/ FetchFail \/ FetchOk \/ PreCheck
    \/ StageFail \/ StageOk \/ BuildCancel \/ BuildFail \/ BuildDone
    \/ FrameCheck \/ FramePollCancel \/ FrameDone \/ StitchOk \/ StitchFail
    \/ SinglePollCancel \/ SingleDone
    \/ PostCheck \/ PostCheckContinue \/ Deliver \/ Settle
    \/ Crash \/ Restart

SpecShutdown == Init /\ [][NextShutdown]_vars

\* ====================================================================
\* The WorkQueue class under arbitrary callers: every public method may be
\* called at any time, dequeue by MaxCallers threads at once.
\* ====================================================================

\* items a caller may submit at time t: any name the handler lets through,
\* retry_count 0 or the retry bound
Items(t) ==
    {WorkItem(n, "u1", t, k) : n \in Filenames, k \in {0, DefaultMaxRetries}}

\* what the calls below leave alone: the worker thread, the clock, the disk
workerVars == <<now, alive, pc, item, output_filename, orbit_frames, frame,
                rendered, file_data, send_success,
                readings, pipeline_exit, lastInit, files, auxVars, shutdown_job,
                requests>>

\* the last call and, for cancelCurrentJob, the name it returned; the calls
\* no property tells apart are recorded as "other"
Returned(op, name) == [op |-> op, name |-> name]

\* queue_condition.notify_one: at most one caller blocked in wait is woken
NotifyOne(cs) ==
    IF \A c \in Callers : cs[c].pc # "wait" THEN {cs}
    ELSE {[cs EXCEPT ![c].pc = "woken"] :
            c \in {d \in Callers : cs[d].pc = "wait"}}

\* queue_condition.notify_all
NotifyAll(cs) ==
    [c \in Callers |->
        IF cs[c].pc = "wait" THEN [cs[c] EXCEPT !.pc = "woken"] ELSE cs[c]]

\* mutant: the lock is released between the SELECT and markProcessing
MutexAfterSelect_Released(c) == 0

\* dequeue's unique_lock is still held after the SELECT found a row
MutexAfterSelect(c) == c

\* enqueue(item), under lock_guard
CallEnqueue ==
    /\ mutex = 0
    /\ nextId <= MaxJobs
    /\ \E it \in Items(now) : store' = enqueue(store, nextId, it)
    /\ nextId' = nextId + 1
    /\ callers' \in NotifyOne(callers)
    /\ ret' = Returned("other", "")
    /\ UNCHANGED <<workerVars, shutdown_requested, cancelVars, fails, mutex,
                   holders>>

\* dequeue(item) is called: the caller waits for queue_mutex
CallDequeue(c) ==
    /\ callers[c].pc = "out"
    /\ callers' = [callers EXCEPT ![c].pc = "lock"]
    /\ ret' = Returned("other", "")
    /\ UNCHANGED <<workerVars, store, nextId, shutdown_requested, cancelVars,
                   fails, mutex, holders>>

\* the unique_lock is acquired, on entry or when wait returns
CallerLock(c) ==
    /\ callers[c].pc \in {"lock", "woken"}
    /\ mutex = 0
    /\ mutex' = c
    /\ callers' = [callers EXCEPT ![c].pc = "check"]
    /\ ret' = Returned("other", "")
    /\ UNCHANGED <<workerVars, store, nextId, shutdown_requested, cancelVars,
                   fails, holders>>

\* while (!shutdown_requested) ... return false
CallerCheck(c) ==
    /\ callers[c].pc = "check"
    /\ IF shutdown_requested
       THEN /\ callers' = [callers EXCEPT ![c].pc = "out"]
            /\ mutex' = 0
       ELSE /\ callers' = [callers EXCEPT ![c].pc = "select"]
            /\ UNCHANGED mutex
    /\ ret' = Returned("other", "")
    /\ UNCHANGED <<workerVars, store, nextId, shutdown_requested, cancelVars,
                   fails, holders>>

\* SELECT oldest pending: a row is read into item, or wait(lock)
CallerSelect(c) ==
    /\ callers[c].pc = "select"
    /\ IF RowsWithStatus(store, "pending") # {}
       THEN \E r \in OldestWithStatus(store, "pending") :
                /\ callers' = [callers EXCEPT ![c] = [pc |-> "mark", sel |-> r.id]]
                /\ mutex' = MutexAfterSelect(c)
       ELSE /\ callers' = [callers EXCEPT ![c].pc = "wait"]
            /\ mutex' = 0
    /\ ret' = Returned("other", "")
    /\ UNCHANGED <<workerVars, store, nextId, shutdown_requested, cancelVars,
                   fails, holders>>

\* markProcessing(item.id); return true
CallerMark(c) ==
    /\ callers[c].pc = "mark"
    /\ store' = markProcessing(store, callers[c].sel)
    /\ holders' = [holders EXCEPT ![callers[c].sel] = @ \cup {c}]
    /\ callers' = [callers EXCEPT ![c] = [pc |-> "out", sel |-> 0]]
    /\ mutex' = IF mutex = c THEN 0 ELSE mutex
    /\ ret' = Returned("other", "")
    /\ UNCHANGED <<workerVars, nextId, shutdown_requested, cancelVars, fails>>

\* wait returns without a notification
CallerSpuriousWake(c) ==
    /\ callers[c].pc = "wait"
    /\ callers' = [callers EXCEPT ![c].pc = "woken"]
    /\ ret' = Returned("other", "")
    /\ UNCHANGED <<workerVars, store, nextId, shutdown_requested, cancelVars,
                   fails, mutex, holders>>

\* markCompleted(id), under lock_guard
CallMarkCompleted ==
    /\ mutex = 0
    /\ \E id \in Ids : store' = markCompleted(store, id, now)
    /\ ret' = Returned("other", "")
    /\ UNCHANGED <<workerVars, nextId, shutdown_requested, cancelVars, fails,
                   mutex, callers, holders>>

\* mutant: notify_one also when no row was found
CallMarkFailed_AlwaysNotifies ==
    /\ mutex = 0
    /\ \E id \in Ids :
        /\ store' = markFailed(store, id, DefaultMaxRetries)
        /\ fails' = IF RowsWithId(store, id) # {}
                    THEN [fails EXCEPT ![id] = @ + 1] ELSE fails
        /\ holders' = IF RowsWithId(store, id) # {}
                      THEN [holders EXCEPT ![id] = {}] ELSE holders
        /\ callers' \in NotifyOne(callers)
        /\ ret' = Returned("markFailed",
                           IF RowsWithId(store, id) # {} THEN "true" ELSE "false")
    /\ UNCHANGED <<workerVars, nextId, shutdown_requested, cancelVars, mutex>>

\* markFailed(id), under lock_guard: false when the SELECT finds no row,
\* else true, with notify_one when the row is re-queued
CallMarkFailed ==
    /\ mutex = 0
    /\ \E id \in Ids :
        /\ store' = markFailed(store, id, DefaultMaxRetries)
        /\ fails' = IF RowsWithId(store, id) # {}
                    THEN [fails EXCEPT ![id] = @ + 1] ELSE fails
        /\ holders' = IF RowsWithId(store, id) # {}
                      THEN [holders EXCEPT ![id] = {}] ELSE holders
        /\ callers' \in IF RowsWithId(store', id) # {}
                        THEN NotifyOne(callers) ELSE {callers}
        /\ ret' = Returned("markFailed",
                           IF RowsWithId(store, id) # {} THEN "true" ELSE "false")
    /\ UNCHANGED <<workerVars, nextId, shutdown_requested, cancelVars, mutex>>

\* mutant: the flag is set whether or not a 'processing' row is found
CallCancelCurrentJob_AlwaysSets ==
    /\ mutex = 0
    /\ cancel_current_job' = TRUE
    /\ IF RowsWithStatus(store, "processing") # {}
       THEN \E r \in OldestWithStatus(store, "processing") :
                /\ cancel_target' = r.id
                /\ ret' = Returned("cancelCurrentJob", r.original_filename)
       ELSE /\ ret' = Returned("cancelCurrentJob", "")
            /\ UNCHANGED cancel_target
    /\ UNCHANGED <<workerVars, store, nextId, shutdown_requested,
                   current_job_id, cancel_by, fails, mutex, callers, holders>>

\* cancelCurrentJob(), under lock_guard
CallCancelCurrentJob ==
    /\ mutex = 0
    /\ IF RowsWithStatus(store, "processing") # {}
       THEN \E r \in OldestWithStatus(store, "processing") :
                /\ cancel_current_job' = TRUE
                /\ cancel_target' = r.id
                /\ ret' = Returned("cancelCurrentJob", r.original_filename)
       ELSE /\ ret' = Returned("cancelCurrentJob", "")
            /\ UNCHANGED <<cancel_current_job, cancel_target>>
    /\ UNCHANGED <<workerVars, store, nextId, shutdown_requested,
                   current_job_id, cancel_by, fails, mutex, callers, holders>>

\* markCurrentJobCancelled(), under lock_guard
CallMarkCurrentJobCancelled ==
    /\ mutex = 0
    /\ Acknowledge
    /\ ret' = Returned("markCurrentJobCancelled", "")
    /\ UNCHANGED <<workerVars, nextId, shutdown_requested, fails, mutex,
                   callers, holders>>

\* setCurrentJobId(job_id), no lock
CallSetCurrentJobId ==
    /\ \E id \in Ids : current_job_id' = id
    /\ ret' = Returned("other", "")
    /\ UNCHANGED <<workerVars, store, nextId, shutdown_requested,
                   cancel_current_job, cancel_target, cancel_by, fails, mutex,
                   callers, holders>>

\* requestShutdown(), no lock
CallRequestShutdown ==
    /\ ~shutdown_requested
    /\ shutdown_requested' = TRUE
    /\ callers' = NotifyAll(callers)
    /\ ret' = Returned("other", "")
    /\ UNCHANGED <<workerVars, store, nextId, cancelVars, fails, mutex,
                   holders>>

\* producers, MaxCallers consumers, and the settling calls
NextDequeuers ==
    \/ CallEnqueue
    \/ \E c \in Callers :
        \/ CallDequeue(c) \/ CallerLock(c) \/ CallerCheck(c)
        \/ CallerSelect(c) \/ CallerMark(c) \/ CallerSpuriousWake(c)
    \/ CallMarkCompleted \/ CallMarkFailed
    \/ CallRequestShutdown

SpecDequeuers == Init /\ [][NextDequeuers]_vars

\* producers, one consumer, the settling calls and the cancellation calls
NextApi ==
    \/ CallEnqueue
    \/ \E c \in {1} :
        \/ CallDequeue(c) \/ CallerLock(c) \/ CallerCheck(c)
        \/ CallerSelect(c) \/ CallerMark(c) \/ CallerSpuriousWake(c)
    \/ CallMarkCompleted \/ CallMarkFailed
    \/ CallCancelCurrentJob \/ CallMarkCurrentJobCancelled
    \/ CallSetCurrentJobId

SpecApi == Init /\ [][NextApi]_vars

\* ====================================================================
\* The worker with jobs of several members and the /remove handler in its
\* two locked calls, getCurrentJobOwnerId and cancelCurrentJob.
\* ====================================================================

\* jobs are submitted by any member
EnqueueAnyUser == EnqueueBy(Users)

\* WorkQueue::getCurrentJobOwnerId: user_id of the oldest 'processing' row, or 0
getCurrentJobOwnerId(s) ==
    IF RowsWithStatus(s, "processing") = {} THEN {"0"}
    ELSE {r.user_id : r \in OldestWithStatus(s, "processing")}

\* /remove by u: is_admin, getCurrentJobOwnerId, is_job_owner; the handler
\* goes on unless it replies "Access denied"
RemoveCheck(u) ==
    /\ alive /\ LockFree
    /\ u \notin requests
    /\ u \in AdminUserIds \/ u \in getCurrentJobOwnerId(store)
    /\ requests' = requests \cup {u}
    /\ UNCHANGED <<store, nextId, now, alive, shutdown_requested, readings,
                   lastInit, shutdown_job, mutex, callers, holders, ret,
                   cancelVars, jobVars, pc, fails, files, auxVars>>

\* /remove by u, after the check: cancelCurrentJob
RemoveCancel(u) ==
    /\ alive /\ LockFree
    /\ u \in requests
    /\ requests' = requests \ {u}
    /\ IF RowsWithStatus(store, "processing") # {}
       THEN \E r \in OldestWithStatus(store, "processing") :
                /\ cancel_current_job' = TRUE
                /\ cancel_target' = r.id
                /\ cancel_by' = cancel_by \cup {u}
       ELSE UNCHANGED <<cancel_current_job, cancel_target, cancel_by>>
    /\ UNCHANGED <<store, nextId, now, alive, shutdown_requested, readings,
                   lastInit, shutdown_job, mutex, callers, holders, ret,
                   current_job_id, jobVars, pc, fails, files, auxVars>>

NextRemove ==
    \/ ReadClock \/ EnqueueAnyUser
    \/ \E u \in Users \cup AdminUserIds : RemoveCheck(u) \/ RemoveCancel(u)
    \/ DequeueLock \/ DequeueCheck \/ DequeueSelect \/ SpuriousWake
    \/ FetchFail \/ FetchOk \/ PreCheck
    \/ StageFail \/ StageOk \/ BuildCancel \/ BuildFail \/ BuildDone
    \/ FrameCheck \/ FramePollCancel \/ FrameDone \/ StitchOk \/ StitchFail
    \/ SinglePollCancel \/ SingleDone
    \/ PostCheck \/ PostCheckContinue \/ Deliver \/ Settle

SpecRemove == Init /\ [][NextRemove]_vars

\* ====================================================================
\* The render loop and the disk: the worker thread, producers and an
\* admin's /remove, with every frame file followed while it is on disk.
\* ====================================================================
InitRender ==
    /\ InitProgram
    /\ frame_watch = FrameIndices
    /\ message_content = <<>>

NextRender ==
    \/ ReadClock \/ Enqueue \/ CancelCurrentJob
    \/ DequeueLock \/ DequeueCheck \/ DequeueSelect \/ SpuriousWake
    \/ FetchFail \/ FetchOk \/ PreCheck
    \/ StageFail \/ StageOk \/ BuildCancel \/ BuildFail \/ BuildDone
    \/ FrameCheck \/ FramePollCancel \/ FrameDone \/ StitchOk \/ StitchFail
    \/ SinglePollCancel \/ SingleDone
    \/ PostCheck \/ PostCheckContinue \/ Deliver \/ Settle

SpecRender == InitRender /\ [][NextRender]_vars

\* ====================================================================
\* Jobs told apart by name: the worker, an admin's /remove and producers
\* of attachments with different names.
\* ====================================================================
EnqueueAnyName == EnqueueFrom({"u1"}, Filenames)

NextNames ==
    \/ ReadClock \/ EnqueueAnyName \/ CancelCurrentJob
    \/ DequeueLock \/ DequeueCheck \/ DequeueSelect \/ SpuriousWake
    \/ FetchFail \/ FetchOk \/ PreCheck
    \/ StageFail \/ StageOk \/ BuildCancel \/ BuildFail \/ BuildDone
    \/ FrameCheck \/ FramePollCancel \/ FrameDone \/ StitchOk \/ StitchFail
    \/ SinglePollCancel \/ SingleDone
    \/ PostCheck \/ PostCheckContinue \/ Deliver \/ Settle

SpecNames == Init /\ [][NextNames]_vars

\* ====================================================================
\* parseOrbit on its own: one call on a message text.
\* ====================================================================
\* what precedes the directive: nothing, a letter glued to it, a word, or
\* an earlier directive without a number
OrbitPrefixes ==
    {<<>>, <<"x">>, <<"a", " ">>, OrbitKey \o <<"x", " ">>}

\* the key as members type it, the key without "=", no key
OrbitKeys ==
    {OrbitKey, <<"O", "r", "b", "i", "t", "=">>,
     <<"O", "R", "B", "I", "T", "=">>, <<"o", "r", "b", "i", "t">>, <<>>}

\* what follows the key
OrbitValues ==
    {<<>>, <<"0">>, <<"1">>, <<"7">>, <<"3", "0", "0">>, <<"3", "0", "1">>,
     <<"5", "0", "0">>, <<"-", "3">>, <<"+", "7">>, <<"0", "0", "7">>,
     <<"1", "2", "a">>, <<"a">>, <<"\f", "4">>,
     <<"2", "1", "4", "7", "4", "8", "3", "6", "4", "7">>,
     <<"2", "1", "4", "7", "4", "8", "3", "6", "4", "8">>,
     <<"9", "9", "9", "9", "9", "9", "9", "9", "9", "9", "9">>}

\* the rest of the message
OrbitSuffixes == {<<>>, <<" ">>, <<" ", "9">>, <<"\t", "a">>, <<"\n">>}

OrbitInputs ==
    {p \o k \o v \o x : p \in OrbitPrefixes, k \in OrbitKeys,
                        v \in OrbitValues, x \in OrbitSuffixes}

InitOrbit ==
    /\ InitProgram
    /\ frame_watch = {}
    /\ message_content \in OrbitInputs

\* int orbit_frames = parseOrbit(message_content)
ParseOrbit ==
    /\ ret.op = "other"
    /\ orbit_frames' = parseOrbit(message_content)
    /\ ret' = Returned("parseOrbit", "")
    /\ UNCHANGED <<store, nextId, now, alive, shutdown_requested, cancelVars,
                   pc, item, output_filename, frame, rendered, file_data,
                   send_success, readings,
                   fails, pipeline_exit, lastInit, files, shutdown_job, requests,
                   mutex, callers, holders, auxVars>>

NextOrbit == ParseOrbit

SpecOrbit == InitOrbit /\ [][NextOrbit]_vars

\* ====================================================================
\* Properties
\* ====================================================================

\* the worker holds no job: it is in, or about to call, dequeue
WorkerIdle == pc \in {"idle", "dq_check", "dq_select", "dq_wait", "dq_woken"}

\* the worker's loop body for the job `item` ends with this step
IterationEnds == alive' /\ item # 0 /\ pc # "idle" /\ pc' = "idle"

\* C1: in every reachable state the store holds at most one row with
\* status 'processing'.
C1_AtMostOneProcessing ==
    Cardinality(RowsWithStatus(store, "processing")) <= 1

\* C2: every job that dequeue flipped to 'processing' leaves 'processing'
\* through the worker's markCompleted, markFailed or markCurrentJobCancelled,
\* on every outcome of fetch, pipeline and delivery: when the worker's loop
\* body for a job ends, the job's row is no longer 'processing'.
C2_JobLeavesProcessing ==
    [][IterationEnds =>
        \A r \in RowsWithId(store', item) : r.status # "processing"]_vars

\* C3: when processVmaxFile fails and no cancellation was requested, the
\* worker calls markFailed for the job exactly once.
C3_PipelineFailureMarksFailed ==
    [][(IterationEnds /\ pipeline_exit = "failure" /\ ~cancel_current_job) =>
        fails'[item] = fails[item] + 1]_vars

\* dequeue returns the row r with this step
Dequeued(r) == alive' /\ pc = "dq_select" /\ pc' = "fetching" /\ item' = r.id

\* markFailed found the row of job i with this step
Failed(i) == fails'[i] = fails[i] + 1

\* C4: dequeue returns the pending job with the smallest created_at (so with
\* pairwise distinct created_at values the dequeue order is ascending
\* created_at order), and a job that markFailed returns to 'pending' keeps its
\* created_at, so it is dequeued again before every pending job created later.
C4_FifoByCreationTime ==
    [][/\ \A r \in store :
            Dequeued(r) =>
                /\ r.status = "pending"
                /\ \A q \in RowsWithStatus(store, "pending") :
                        q.id # r.id => r.created_at <= q.created_at
       /\ \A r \in store, q \in store' :
            q.id = r.id => q.created_at = r.created_at]_vars

C4_Witness ==
    \E r \in RowsWithStatus(store, "processing"),
       q \in RowsWithStatus(store, "pending") :
        /\ item = r.id
        /\ r.retry_count >= 1
        /\ r.created_at < q.created_at
        /\ q.id < r.id

\* C5 as claimed: after the maxRetries-th failure the job's row is absent.
C5_AbsentAfterMaxRetriesFailures ==
    [][\A i \in Ids :
        (Failed(i) /\ fails'[i] = DefaultMaxRetries) =>
            RowsWithId(store', i) = {}]_vars

\* C5 amended: after the maxRetries-th failure the row is still pending with
\* retry_count = maxRetries; it is absent after failure maxRetries + 1.
C5_AbsentAfterMaxRetriesPlusOneFailures ==
    [][\A i \in Ids :
        /\ (Failed(i) /\ fails'[i] = DefaultMaxRetries) =>
                \E r \in store' :
                    /\ RowsWithId(store', i) = {r}
                    /\ r.status = "pending"
                    /\ r.retry_count = DefaultMaxRetries
        /\ (Failed(i) /\ fails'[i] = DefaultMaxRetries + 1) =>
                RowsWithId(store', i) = {}]_vars

C5_Witness ==
    \E i \in Ids :
        /\ fails[i] = DefaultMaxRetries + 1
        /\ i < nextId
        /\ RowsWithId(store, i) = {}

\* C6: after failure maxRetries - 1 the job is in the store with status
\* 'pending' and retry_count = maxRetries - 1.
C6_PendingAfterMaxRetriesMinusOneFailures ==
    [][\A i \in Ids :
        (Failed(i) /\ fails'[i] = DefaultMaxRetries - 1) =>
            \E r \in store' :
                /\ RowsWithId(store', i) = {r}
                /\ r.status = "pending"
                /\ r.retry_count = DefaultMaxRetries - 1]_vars

C6_Witness ==
    \E r \in RowsWithStatus(store, "pending") :
        /\ fails[r.id] = DefaultMaxRetries - 1
        /\ r.retry_count = DefaultMaxRetries - 1
        /\ pc = "idle"

\* the process starts (WorkQueue::initialize runs) with this step
Restarted == ~alive /\ alive'

\* C7: a job that is 'processing' (bella_end_time = 0) when the process is
\* killed is, after initialize, in the store exactly once, with status
\* 'pending' and otherwise unchanged; initialize run again changes nothing.
C7_RecoveryIdempotent ==
    [][Restarted =>
        /\ \A r \in store :
            (r.status = "processing" /\ r.bella_end_time = 0) =>
                /\ RowsWithId(store', r.id) = {[r EXCEPT !.status = "pending"]}
                /\ \A t \in {now', now' + 1, now' + RetentionSeconds + 1} :
                    RowsWithId(initialize(store', t), r.id) = RowsWithId(store', r.id)
        /\ initialize(store', now') = store']_vars

C7_Witness ==
    /\ alive
    /\ pc = "idle"
    /\ lastInit.reset # {}
    /\ \A i \in lastInit.reset :
        \E r \in RowsWithStatus(store, "pending") : r.id = i

\* C8: after initialize the store holds no 'completed' row whose
\* bella_end_time is older than the 24-hour retention window.
C8_RetentionPurge ==
    [][Restarted =>
        \A r \in store' :
            ~(r.status = "completed" /\ r.bella_end_time < now' - RetentionSeconds)]_vars

C8_Witness ==
    /\ alive
    /\ pc = "idle"
    /\ lastInit.purged # {}
    /\ \A i \in lastInit.purged : RowsWithId(store, i) = {}

\* the worker consults the cancel-requested flag, finds it set and
\* acknowledges with this step
CheckpointSeesCancel ==
    /\ alive' /\ cancel_current_job /\ pc' # pc
    /\ \/ pc \in {"precheck", "postcheck2"}
       \/ pc \in PipelinePcs /\ pipeline_exit' = "cancelled"

\* C9: after cancelCurrentJob succeeded on the processing job and that job
\* reaches its next cancellation checkpoint, its row is gone, the
\* cancel-requested flag is false and current_job_id is 0.
C9_CancelAcknowledged ==
    [][(CheckpointSeesCancel /\ cancel_target = item) =>
        /\ RowsWithId(store', item) = {}
        /\ ~cancel_current_job'
        /\ current_job_id' = 0]_vars

C9_Witness ==
    /\ pc = "postcheck"
    /\ pipeline_exit = "cancelled"
    /\ item # 0
    /\ RowsWithStatus(store, "processing") = {}
    /\ RowsWithId(store, item) = {}
    /\ ~cancel_current_job
    /\ current_job_id = 0

\* C10: every cancel request that set the flag is acknowledged, also when it
\* arrives during fetch or delivery and no further job is enqueued: when the
\* worker is blocked in dequeue and no row is pending or processing, the
\* flag is clear.
C10_CancelEventuallyCleared ==
    (/\ pc = "dq_wait"
     /\ RowsWithStatus(store, "pending") = {}
     /\ RowsWithStatus(store, "processing") = {}) =>
        ~cancel_current_job

\* C11: after requestShutdown every dequeue call that is blocked or about to
\* block returns the closed signal without a further enqueue, under every
\* interleaving with the loop's shutdown check, select and wait: the worker
\* is never blocked in the condition wait, with no notification on its way,
\* while shutdown has been requested.
C11_ShutdownUnblocksDequeue == pc = "dq_wait" => ~shutdown_requested

\* dequeue returns the closed signal, and the worker's loop exits, with this step
ReturnsClosed ==
    alive' /\ pc \in {"dq_check", "dq_select"} /\ pc' = "done"

\* requestShutdown is called with this step
ShutdownCalled == alive' /\ ~shutdown_requested /\ shutdown_requested'

\* C12: when requestShutdown is called while a job is in flight, the worker's
\* loop does not exit before that job has been settled (its row is no longer
\* 'processing'); requestShutdown changes no store row and does not set the
\* cancel-requested flag.
C12_ShutdownDrainsJob ==
    [][/\ (ReturnsClosed /\ shutdown_job # 0) =>
            \A r \in RowsWithId(store', shutdown_job) : r.status # "processing"
       /\ ShutdownCalled =>
            /\ store' = store
            /\ cancel_current_job' = cancel_current_job]_vars

\* dequeue returns a job with this step
ReturnsJob == alive' /\ pc = "dq_select" /\ pc' = "fetching"

\* C14 as claimed: dequeue returns the closed signal only when shutdown has
\* been requested and no job is pending; a job it returns was 'pending'; it
\* does not return while there is neither a pending job nor a shutdown request.
C14_ClosedOnlyWhenNothingPending ==
    [][/\ ReturnsClosed =>
            (shutdown_requested /\ RowsWithStatus(store, "pending") = {})
       /\ ReturnsJob =>
            \E r \in RowsWithStatus(store, "pending") : item' = r.id
       /\ (ReturnsClosed \/ ReturnsJob) =>
            (shutdown_requested \/ RowsWithStatus(store, "pending") # {})]_vars

\* C14 amended: dequeue returns the closed signal only when shutdown has been
\* requested, whether or not a job is pending; a job it returns was 'pending'
\* and is 'processing' afterwards; it does not return while there is neither
\* a pending job nor a shutdown request.
C14_ClosedOnlyOnShutdown ==
    [][/\ ReturnsClosed => shutdown_requested
       /\ ReturnsJob =>
            \E r \in RowsWithStatus(store, "pending") :
                /\ item' = r.id
                /\ RowsWithId(store', r.id) = {[r EXCEPT !.status = "processing"]}
       /\ (ReturnsClosed \/ ReturnsJob) =>
            (shutdown_requested \/ RowsWithStatus(store, "pending") # {})]_vars

C14_Witness ==
    /\ alive
    /\ pc = "done"
    /\ shutdown_requested
    /\ RowsWithStatus(store, "pending") # {}

\* C18: once cancellation has been acknowledged for a job its row is absent
\* and stays absent (so it is not 'pending' again and its retry_count is not
\* incremented), markFailed finds no row of it, it is not dequeued again, and
\* the worker is neither fetching nor delivering for a job without a row: it
\* does not reach the markCompleted / markFailed calls for the acknowledged job.
C18_NoSettlementAfterAcknowledge ==
    [][/\ (CheckpointSeesCancel /\ current_job_id = item) =>
            /\ RowsWithId(store', item) = {}
            /\ pc' \in {"idle", "postcheck"}
       /\ (alive' /\ pc = "postcheck" /\ pipeline_exit = "cancelled") =>
            pc' \in {"postcheck", "postcheck2"}
       /\ (alive' /\ pc' \in {"fetching", "delivering", "settling"}) =>
            RowsWithId(store', item') # {}
       /\ \A i \in Ids :
            (i < nextId /\ RowsWithId(store, i) = {}) =>
                /\ RowsWithId(store', i) = {}
                /\ fails'[i] = fails[i]
                /\ (item' = i => item = i)]_vars

C18_Witness ==
    /\ alive
    /\ pc = "postcheck2"
    /\ pipeline_exit = "cancelled"
    /\ item # 0
    /\ fails[item] = 0
    /\ RowsWithId(store, item) = {}

\* C19: on every exit path of processVmaxFile the job's work directory and
\* temporary input file have been removed when the call has returned.
C19_FilesRemovedOnReturn ==
    pc = "postcheck" =>
        (WorkDir(item) \notin files /\ TempFile(item) \notin files)

\* dequeue returns row i to caller c with this step
Claims(c, i) ==
    callers[c].pc = "mark" /\ callers[c].sel = i /\ callers'[c].pc = "out"

\* C13: with several concurrent callers of dequeue, the row a call returns is
\* the oldest 'pending' row at the moment of its flip to 'processing', and
\* it is returned to no other caller while it is pending that time.
C13_NoDoubleClaim ==
    [][\A c \in Callers, i \in Ids :
        Claims(c, i) =>
            /\ \E r \in OldestWithStatus(store, "pending") : r.id = i
            /\ \A r \in RowsWithId(store', i) : r.status = "processing"
            /\ holders'[i] = {c}]_vars

C13_Witness ==
    \E c \in Callers, d \in Callers, i \in Ids :
        /\ c # d
        /\ holders[i] = {c}
        /\ callers[d].pc = "wait"
        /\ \E r \in store : store = {r} /\ r.id = i /\ r.status = "processing"

\* enqueue inserts a row with this step
EnqueueStep == nextId' = nextId + 1

\* C15: each enqueue adds exactly one row, with a fresh id, status 'pending',
\* retry_count 0 and both processing timestamps 0, whatever the submitted
\* item holds; so N enqueues add N rows with pairwise distinct ids.
C15_EnqueueAddsFreshPendingRow ==
    [][EnqueueStep =>
        /\ Cardinality(store') = Cardinality(store) + 1
        /\ \E r \in store' :
            /\ store' = store \cup {r}
            /\ \A q \in store : q.id # r.id
            /\ r.status = "pending"
            /\ r.retry_count = 0
            /\ r.bella_start_time = 0
            /\ r.bella_end_time = 0]_vars

\* C16: cancelCurrentJob changes no row and not current_job_id; with a
\* 'processing' row it sets the flag and returns that row's (non-empty)
\* name, without one it returns "" and leaves the flag as it was.
C16_CancelFrame ==
    [][ret'.op = "cancelCurrentJob" =>
        /\ store' = store
        /\ current_job_id' = current_job_id
        /\ IF RowsWithStatus(store, "processing") # {}
           THEN /\ cancel_current_job'
                /\ ret'.name # ""
                /\ \E r \in OldestWithStatus(store, "processing") :
                        ret'.name = r.original_filename
           ELSE /\ ret'.name = ""
                /\ cancel_current_job' = cancel_current_job]_vars

C16_Witness ==
    /\ ret.op = "cancelCurrentJob"
    /\ ret.name \in Filenames
    /\ cancel_current_job
    /\ \E r \in RowsWithStatus(store, "processing") :
            r.original_filename = ret.name

\* C17: after one call of markCurrentJobCancelled the flag is false and
\* current_job_id is 0; a second call right after it changes neither these
\* nor the store.
C17_AcknowledgeIdempotent ==
    [][/\ ret'.op = "markCurrentJobCancelled" =>
            (~cancel_current_job' /\ current_job_id' = 0)
       /\ (ret.op = "markCurrentJobCancelled"
             /\ ret'.op = "markCurrentJobCancelled") =>
            /\ store' = store
            /\ cancel_current_job' = cancel_current_job
            /\ current_job_id' = current_job_id]_vars

C17_Witness ==
    /\ ret.op = "markCurrentJobCancelled"
    /\ ~cancel_current_job
    /\ current_job_id = 0
    /\ \E i \in Ids :
        i < nextId /\ fails[i] = 0 /\ RowsWithId(store, i) = {}

\* C20: a /remove of a member outside the admin allow-list leads to the
\* cancellation of a job only if that member owns the job: when the worker
\* acknowledges and deletes a row, every member whose request set the flag
\* is an admin or the owner of that row.
C20_OnlyOwnerOrAdminCancels ==
    [][CheckpointSeesCancel =>
        \A r \in RowsWithId(store, current_job_id) :
            \A u \in cancel_by : u \in AdminUserIds \/ u = r.user_id]_vars

\* C21: every row with status 'completed' has bella_start_time and
\* bella_end_time set (non-zero), and a completed job for which markFailed
\* was never called has retry_count 0.
C21_CompletedRowsTimed ==
    \A r \in store :
        r.status = "completed" =>
            /\ r.bella_start_time # 0
            /\ r.bella_end_time # 0
            /\ fails[r.id] = 0 => r.retry_count = 0

\* a job completed without a failure, its render started at an earlier
\* second than its completion
C21_Witness ==
    \E r \in store :
        /\ r.status = "completed"
        /\ fails[r.id] = 0
        /\ r.bella_start_time < r.bella_end_time

\* the words of a message: maximal runs of characters other than white space
Words(message) ==
    {w \in (1..Len(message)) \X (1..Len(message)) :
        /\ w[1] <= w[2]
        /\ \A k \in w[1]..w[2] : ~isspace(message[k])
        /\ w[1] = 1 \/ isspace(message[w[1] - 1])
        /\ w[2] = Len(message) \/ isspace(message[w[2] + 1])}

\* v is a number: an optional sign and digits, nothing else
IsNumber(v) ==
    /\ v # <<>>
    /\ \A k \in 2..Len(v) : isdigit(v[k])
    /\ isdigit(v[1]) \/ (v[1] \in {"+", "-"} /\ Len(v) > 1)

\* the n (1 <= n <= 300) for which the message carries a token orbit=n
Directives(message) ==
    {n \in 1..300 :
        \E w \in Words(message) :
            LET word == SubSeq(message, w[1], w[2])
                v    == SubSeq(word, 7, Len(word))
            IN  /\ Len(word) > 6
                /\ ToLower(SubSeq(word, 1, 6)) = OrbitKey
                /\ IsNumber(v)
                /\ ~stoi(v).threw
                /\ stoi(v).value = n}

Parsed == ret.op = "parseOrbit"

\* C22: parseOrbit returns an integer in 0..300; it returns n when the
\* message carries a token orbit=n with 1 <= n <= 300, and 0 when no such
\* token is there (absent, without a value, not a number, out of range).
C22_ParseOrbitByToken ==
    Parsed =>
        /\ orbit_frames \in 0..300
        /\ Directives(message_content) # {} =>
                orbit_frames \in Directives(message_content)
        /\ Directives(message_content) = {} => orbit_frames = 0

\* processVmaxFile returns from the animation path without a cancellation
AnimationReturns ==
    /\ pc \in {"p_frame", "p_frame_render", "p_stitch"}
    /\ pc' = "postcheck"
    /\ pipeline_exit' # "cancelled"

\* the files of the frames the current call rendered
RenderedFiles == {FrameFile(rendered[k]) : k \in DOMAIN rendered}

\* the frame indices 0..n-1 in order
InOrder(n) == [k \in 1..n |-> k - 1]

C24_MarkFailedTransition ==
    [][\A i \in Ids :
        Failed(i) =>
            \E r \in store :
                /\ r.id = i
                /\ store' =
                    IF r.retry_count >= DefaultMaxRetries
                    THEN store \ {r}
                    ELSE (store \ {r}) \cup
                         {Row(r.id, r.original_filename, r.user_id,
                              r.created_at, r.retry_count + 1, "pending",
                              r.bella_start_time, r.bella_end_time)}]_vars

\* a job failed after its render had started and is queued again, next to
\* another job, and one job was deleted at the retry bound
C24_Witness ==
    \E r \in store :
        /\ r.status = "pending"
        /\ r.retry_count >= 1
        /\ fails[r.id] = r.retry_count
        /\ r.bella_start_time # 0
        /\ \E i \in Ids :
            fails[i] = DefaultMaxRetries + 1 /\ RowsWithId(store, i) = {}

\* the delivering step ends: the worker makes its call on the outcome
Settles == alive' /\ pc = "settling" /\ pc' = "idle"

\* C25: after the delivery the worker calls markCompleted if and only if
\* the artifact was read with non-empty content and the send reported
\* success, and markFailed otherwise; exactly one of the two is called.
C25_CompletedIffReadAndSent ==
    [][Settles =>
        IF send_success /\ file_data # ""
        THEN /\ \E r \in store' : r.id = item /\ r.status = "completed"
             /\ ~Failed(item)
        ELSE /\ Failed(item)
             /\ \A r \in store' : r.id = item => r.status = "pending"]_vars

\* the message was sent but the artifact could not be read
C25_Witness ==
    /\ pc = "settling"
    /\ send_success
    /\ file_data = ""
    /\ \E r \in store : r.id = item /\ r.status = "processing"

\* the download of the dequeued job has failed and the loop body ends
FetchFails == alive' /\ pc = "fetching" /\ pc' = "idle"

\* C26: when the download of a dequeued job fails the worker calls
\* markFailed for that job, once, and goes back to dequeue: the pipeline is
\* entered only after a successful download, the download is repeated only
\* after another dequeue, and current_job_id is left as it was.
C26_FetchFailureMarksFailed ==
    [][/\ FetchFails =>
            /\ Failed(item)
            /\ fails'[item] = fails[item] + 1
            /\ store' = markFailed(store, item, DefaultMaxRetries)
            /\ current_job_id' = current_job_id
            /\ cancel_current_job' = cancel_current_job
            /\ files' \subseteq files
       /\ (alive' /\ pc' = "precheck" /\ pc # "precheck") =>
            (pc = "fetching" /\ fails' = fails)
       /\ (alive' /\ pc' \in PipelinePcs /\ pc \notin PipelinePcs) =>
            pc = "precheck"
       /\ (alive' /\ pc' = "fetching" /\ pc # "fetching") =>
            pc = "dq_select"]_vars

\* a job whose download failed is queued again; current_job_id is 0
C26_Witness ==
    /\ pc = "idle"
    /\ current_job_id = 0
    /\ \E r \in store :
        /\ r.status = "pending"
        /\ r.retry_count = 1
        /\ fails[r.id] = 1
        /\ r.bella_start_time = 0

\* the worker takes its next step while a frame or the single pass renders
RenderStep ==
    /\ alive'
    /\ pc \in {"p_frame_render", "p_single"}
    /\ pc' # pc

\* the renderer is started for a frame
RendererStarts == alive' /\ pc = "p_frame" /\ pc' = "p_frame_render"

\* C27: the renderer is not started for a frame when the cancel flag is set
\* at the check before it; and when the flag is set while a frame or the
\* single pass is rendering, the render ends by the stop at the poll: no
\* stitching follows and no artifact is returned.
C27_NoArtifactAfterCancel ==
    [][/\ RendererStarts => ~cancel_current_job
       /\ (RenderStep /\ cancel_current_job) =>
            /\ pc' = "postcheck"
            /\ pipeline_exit' = "cancelled"
            /\ output_filename' = ""]_vars

\* row r goes over into row q by one of the lifecycle steps
LifecycleStep(r, q) ==
    \/ /\ r.status = "pending"
       /\ q = [r EXCEPT !.status = "processing"]
       /\ Dequeued(r)
    \/ /\ r.status = "processing"
       /\ q = [r EXCEPT !.status = "completed", !.bella_end_time = now]
       /\ Settles
    \/ /\ r.status = "processing"
       /\ q = [r EXCEPT !.status = "pending", !.retry_count = @ + 1]
       /\ Failed(r.id)
    \/ /\ r.status = "processing"
       /\ q = [r EXCEPT !.status = "pending"]
       /\ Restarted

\* C28: the status of every row is pending, processing or completed; a
\* row changes its status or retry_count only by pending -> processing
\* (dequeue), processing -> completed (markCompleted), processing ->
\* pending with retry_count + 1 (markFailed) or processing -> pending
\* (startup recovery), or it is deleted; a completed row keeps its status
\* and is removed only by the retention purge at startup.
C28_Lifecycle ==
    [][/\ \A q \in store' : q.status \in {"pending", "processing", "completed"}
       /\ \A r \in store :
            /\ \A q \in RowsWithId(store', r.id) :
                \/ q.status = r.status /\ q.retry_count = r.retry_count
                \/ LifecycleStep(r, q)
            /\ r.status = "completed" =>
                \/ r \in store'
                \/ /\ RowsWithId(store', r.id) = {}
                   /\ Restarted
                   /\ r.bella_end_time < now - RetentionSeconds]_vars

\* after a restart that returned an orphaned job to 'pending', next to a
\* job that was completed on its second attempt
C28_Witness ==
    /\ lastInit.reset # {}
    /\ \E r \in store :
        /\ r.status = "completed"
        /\ r.retry_count = 1
    /\ \E r \in store :
        /\ r.status = "pending"
        /\ r.id \in lastInit.reset

\* C29: of any two rows the one with the smaller id has the smaller or
\* equal created_at, however the producers, which read the clock before
\* they call enqueue, interleave.
C29_CreatedAtMonotoneInId ==
    \A r \in store, q \in store :
        r.id < q.id => r.created_at <= q.created_at

\* C30: a cancel request removes only the job that was 'processing' when
\* cancelCurrentJob set the flag: the row an acknowledgement deletes is
\* the row that request selected, never a job that was pending or not yet
\* enqueued then, also for a request during the download or the delivery.
C30_CancelRemovesOnlyTarget ==
    [][CheckpointSeesCancel =>
        \A r \in store \ store' : r.id = cancel_target]_vars

\* C31: whenever the worker is idle (in or about to call dequeue, holding
\* no job) the cancel-requested flag is false and current_job_id is 0, also
\* after markCompleted and after markFailed.
C31_IdleMeansNoCurrentJob ==
    (alive /\ WorkerIdle) =>
        (~cancel_current_job /\ current_job_id = 0)

\* C32: the name a successful cancelCurrentJob returns is the name of the
\* job the worker is processing: the row the following
\* markCurrentJobCancelled deletes carries the name of the row the request
\* selected, also after an earlier job's pipeline failure.
C32_ReturnedNameIsDeletedJob ==
    [][CheckpointSeesCancel =>
        \A r \in store \ store' :
            \A t \in RowsWithId(store, cancel_target) :
                t.original_filename = r.original_filename]_vars

\* the image sequence ffmpeg reads for the pattern frame_%04d.jpg: the
\* frame files numbered consecutively from 0 that exist in the directory
RECURSIVE SequenceFrom(_, _)
SequenceFrom(fs, i) ==
    IF FrameFile(i) \in fs
    THEN {FrameFile(i)} \cup SequenceFrom(fs \ {FrameFile(i)}, i + 1)
    ELSE {}

StitchInput(fs) == SequenceFrom(fs, 0)

\* C33: when stitching starts, the frame sequence it reads holds only frame
\* files rendered during the job's current attempt, none left by an earlier
\* job or attempt.
C33_StitchReadsOwnFrames ==
    pc = "p_stitch" => StitchInput(files) \subseteq RenderedFiles

\* C34: no wake-up is lost for work: with a single worker and no shutdown
\* the worker is never blocked in dequeue's condition wait while a pending
\* row exists, whatever the interleaving of enqueue and of markFailed's
\* re-queue with the dequeue loop.
C34_NoLostWakeup ==
    (alive /\ pc = "dq_wait" /\ ~shutdown_requested) =>
        RowsWithStatus(store, "pending") = {}

\* the waiting worker has been woken by an enqueue and the row is pending
C34_Witness ==
    alive /\ pc = "dq_woken" /\ RowsWithStatus(store, "pending") # {}

\* C35: initialize leaves every 'pending' row and every 'completed' row
\* inside the retention window unchanged, and of each orphaned 'processing'
\* row it changes only the status: id, created_at, retry_count and
\* bella_start_time are kept, so recovery at startup consumes no retry.
C35_InitializeFrame ==
    [][Restarted =>
        \A r \in store :
            /\ r.status = "pending" => RowsWithId(store', r.id) = {r}
            /\ (r.status = "completed"
                    /\ ~(r.bella_end_time < now' - RetentionSeconds)) =>
                RowsWithId(store', r.id) = {r}
            /\ (r.status = "processing" /\ r.bella_end_time = 0) =>
                \E q \in store' :
                    /\ RowsWithId(store', r.id) = {q}
                    /\ q.status = "pending"
                    /\ q.created_at = r.created_at
                    /\ q.retry_count = r.retry_count
                    /\ q.bella_start_time = r.bella_start_time
                    /\ q.original_filename = r.original_filename
                    /\ q.user_id = r.user_id]_vars

\* initialize has just reset a job whose render had started and has kept a
\* pending row and a completed row beside it
C35_Witness ==
    /\ alive /\ pc = "idle"
    /\ \E r \in store :
        /\ r.id \in lastInit.reset
        /\ r.status = "pending"
        /\ r.bella_start_time > 0
    /\ \E r \in store : r.id \notin lastInit.reset

\* C36: a row with status 'pending' is never deleted: a row leaves the
\* store only by markFailed at the retry bound or by
\* markCurrentJobCancelled, both on the job the worker holds in
\* 'processing', or by the retention purge of 'completed' rows at
\* initialization.
C36_PendingNeverDeleted ==
    [][\A r \in store :
        RowsWithId(store', r.id) = {} =>
            /\ r.status # "pending"
            /\ \/ /\ r.status = "processing"
                  /\ r.id = item
                  /\ Settles \/ FetchFails
                  /\ r.retry_count >= DefaultMaxRetries
               \/ /\ r.status = "processing"
                  /\ r.id = item
                  /\ r.id = current_job_id
                  /\ CheckpointSeesCancel
               \/ /\ r.status = "completed"
                  /\ Restarted
                  /\ r.bella_end_time < now - RetentionSeconds]_vars

\* a job has been deleted at the retry bound while another row is pending
C36_Witness ==
    /\ \E i \in Ids :
        /\ fails[i] = DefaultMaxRetries + 1
        /\ i < nextId
        /\ RowsWithId(store, i) = {}
    /\ RowsWithStatus(store, "pending") # {}

\* C37: within one process lifetime and with maxRetries = 3, a job id is
\* returned by dequeue at most maxRetries + 1 times: a row returns to
\* 'pending' only by a counted failure, and the job dequeued has failed at
\* most maxRetries times before, so a job that always fails is attempted
\* finitely often.
C37_DequeuedAtMostMaxRetriesPlusOne ==
    [][\A r \in store :
        /\ Dequeued(r) =>
            /\ r.retry_count = fails[r.id]
            /\ fails[r.id] + 1 <= DefaultMaxRetries + 1
        /\ \A q \in RowsWithId(store', r.id) :
            (r.status # "pending" /\ q.status = "pending") =>
                /\ Failed(r.id)
                /\ q.retry_count = fails'[r.id]]_vars

\* the job has been dequeued for the (maxRetries + 1)-th time
C37_Witness ==
    /\ alive /\ pc = "fetching"
    /\ fails[item] = DefaultMaxRetries
    /\ \E r \in RowsWithId(store, item) : r.status = "processing"

\* C38: markFailed called with an id that has no row returns failure,
\* leaves every row unchanged and wakes no dequeuer; a call that finds the
\* row returns success and changes the store.
C38_MarkFailedMissingRow ==
    [][ret'.op = "markFailed" =>
        IF ret'.name = "false"
        THEN /\ store' = store
             /\ callers' = callers
             /\ fails' = fails
        ELSE store' # store]_vars

\* markFailed has returned failure for an id that was handed out earlier,
\* beside a dequeuer blocked in wait and a row in the store
C38_Witness ==
    /\ ret = Returned("markFailed", "false")
    /\ \E i \in Ids : i < nextId /\ RowsWithId(store, i) = {}
    /\ \E c \in Callers : callers[c].pc = "wait"
    /\ store # {}

====
